---- MODULE Spec2Model ----
(***************************************************************************)
(* A model of the core abstraction layer of Atlas-Core:                    *)
(*   - the Decision aggregation data model                                 *)
(*     (src/src/ordering_protocol/mod.rs),                                 *)
(*   - the signature-verification dispatcher                               *)
(*     (src/src/serialize/mod.rs),                                         *)
(*   - the reply routing of NodeWrap (src/src/smr/exec/mod.rs), and        *)
(*   - the signature verification helpers                                  *)
(*     (src/src/ordering_protocol/networking/signature_ver/mod.rs).        *)
(***************************************************************************)
EXTENDS Integers, Sequences, FiniteSets, TLC

\* ------------------------------------------------------------------------
\* Bounds of the model
\* ------------------------------------------------------------------------

\* Operations that would grow a bundle beyond MaxInfos entries are not taken.
MaxInfos == 3

\* Sequence numbers handed to the constructors.
SeqNos == {1, 2}

\* Proof metadata values (the type parameter MD).
Metadata == {1}

\* Shareable protocol messages (the type parameter P behind an Arc).
Messages == {1, 2}

\* The message vectors handed to decision_info_from_messages / full_decision_info.
MessageLists == {<<1, 2>>}

\* Batch digests of completed decisions.
Digests == {1, 2}

\* Executable batches of completed decisions.
UpdateBatches == {1}

\* The client request infos of a completed decision.
ClientRqLists == {<<1>>}

\* ------------------------------------------------------------------------
\* State
\* ------------------------------------------------------------------------

VARIABLES
    d,          \* the Decision under construction
    lastOp,     \* the last operation performed on d
    ret,        \* what the last operation returned
    otherSeq,   \* seq of the argument, when the last operation was
                \* merge_decisions (0 otherwise)
    otherSame,  \* whether that argument held the same entries as the receiver
    call,       \* the dispatcher call: its header, its envelope and its result
    verdicts,   \* the verifiers' outcomes during that call
    vcall,      \* a direct call of one of NoProtocol's verifiers
    rcall,      \* one call of a ReplyNode method
    hcall       \* one call of a signature verification helper

\* ------------------------------------------------------------------------
\* DecisionInfo and its derived ordering
\* ------------------------------------------------------------------------

NoPart == [mv |-> "None", msgs |-> <<>>]

NoPcd ==
    [seq |-> 0, batch_digest |-> 0, contained_requests |-> <<>>,
     executable_batch |-> 0]

\* MaybeVec::One(m)
MaybeVecOne(m) == [mv |-> "One", msgs |-> <<m>>]

\* MaybeVec::Mult(msgs)
MaybeVecMult(msgs) == [mv |-> "Mult", msgs |-> msgs]

\* ProtocolConsensusDecision::new
ProtocolConsensusDecision_new(seq, executable_batch, client_rqs, batch_digest) ==
    [seq |-> seq, batch_digest |-> batch_digest,
     contained_requests |-> client_rqs, executable_batch |-> executable_batch]

\* Orderable for ProtocolConsensusDecision
pcd_sequence_number(pcd) == pcd.seq

\* The three variants of DecisionInfo.
DecisionMetadata(md) ==
    [kind |-> "DecisionMetadata", md |-> md, part |-> NoPart, pcd |-> NoPcd]

PartialDecisionInformation(part) ==
    [kind |-> "PartialDecisionInformation", md |-> 0, part |-> part, pcd |-> NoPcd]

DecisionDone(pcd) ==
    [kind |-> "DecisionDone", md |-> 0, part |-> NoPart, pcd |-> pcd]

\* The position of a variant in the enum declaration: derive(Ord) compares
\* it first.
VariantRank(kind) ==
    CASE kind = "DecisionMetadata" -> 0
      [] kind = "PartialDecisionInformation" -> 1
      [] kind = "DecisionDone" -> 2

MaybeVecRank(mv) ==
    CASE mv = "None" -> 0
      [] mv = "One" -> 1
      [] mv = "Mult" -> 2

CmpInt(a, b) == IF a < b THEN -1 ELSE IF a > b THEN 1 ELSE 0

\* Lexicographic comparison of two vectors of messages.
RECURSIVE CmpSeq(_, _)
CmpSeq(s, t) ==
    IF s = <<>> THEN (IF t = <<>> THEN 0 ELSE -1)
    ELSE IF t = <<>> THEN 1
    ELSE IF CmpInt(Head(s), Head(t)) # 0 THEN CmpInt(Head(s), Head(t))
    ELSE CmpSeq(Tail(s), Tail(t))

CmpPart(p, q) ==
    IF MaybeVecRank(p.mv) # MaybeVecRank(q.mv)
    THEN CmpInt(MaybeVecRank(p.mv), MaybeVecRank(q.mv))
    ELSE CmpSeq(p.msgs, q.msgs)

\* The result of a comparison that the source does not determine.
Unknown == 2

\* ProtocolConsensusDecision carries no derive and the source holds no
\* implementation of PartialEq / Ord for it, while derive(PartialOrd, Ord,
\* PartialEq) on DecisionInfo needs one.  A value compares equal to itself
\* under any Ord; how two different values compare is not determined.
CmpPcd(p, q) == IF p = q THEN 0 ELSE Unknown

\* derive(PartialOrd, Ord, PartialEq) on DecisionInfo: the variant first,
\* then the payload.
CmpInfo(a, b) ==
    IF VariantRank(a.kind) # VariantRank(b.kind)
    THEN CmpInt(VariantRank(a.kind), VariantRank(b.kind))
    ELSE CASE a.kind = "DecisionMetadata" -> CmpInt(a.md, b.md)
           [] a.kind = "PartialDecisionInformation" -> CmpPart(a.part, b.part)
           [] a.kind = "DecisionDone" -> CmpPcd(a.pcd, b.pcd)

\* ------------------------------------------------------------------------
\* The ordered bundle (a BTreeSet behind MaybeOrderedVec), kept as the
\* sequence in which it is iterated.
\* ------------------------------------------------------------------------

\* Mutant of set_insert: an element equal to one already present is inserted
\* again.
RECURSIVE set_insert_dup(_, _)
set_insert_dup(s, x) ==
    IF s = <<>> THEN <<x>>
    ELSE IF CmpInfo(x, Head(s)) <= 0 THEN <<x>> \o s
    ELSE <<Head(s)>> \o set_insert_dup(Tail(s), x)

\* A bundle whose entries the source does not determine: it results from an
\* insertion that had to compare two different ProtocolConsensusDecision
\* values.
Undetermined ==
    <<[kind |-> "Undetermined", md |-> 0, part |-> NoPart, pcd |-> NoPcd]>>

\* BTreeSet::insert: an element equal to one already present is not inserted;
\* otherwise the element goes before the first greater one.
RECURSIVE set_insert(_, _)
set_insert(s, x) ==
    IF s = Undetermined THEN Undetermined
    ELSE IF s = <<>> THEN <<x>>
    ELSE IF CmpInfo(x, Head(s)) = Unknown THEN Undetermined
    ELSE IF CmpInfo(x, Head(s)) = 0 THEN s
    ELSE IF CmpInfo(x, Head(s)) < 0 THEN <<x>> \o s
    ELSE LET rest == set_insert(Tail(s), x)
         IN  IF rest = Undetermined THEN Undetermined
             ELSE <<Head(s)>> \o rest

\* MaybeOrderedVecBuilder::push
push(vec, value) == set_insert(vec, value)

\* Pushing every element of xs, in iteration order, into the builder.
RECURSIVE push_all(_, _)
push_all(vec, xs) ==
    IF vec = Undetermined \/ xs = Undetermined THEN Undetermined
    ELSE IF xs = <<>> THEN vec
    ELSE push_all(push(vec, Head(xs)), Tail(xs))

\* ------------------------------------------------------------------------
\* Decision
\* ------------------------------------------------------------------------

decision_info_from_message(seq, decision) ==
    [seq |-> seq,
     decision_info |-> <<PartialDecisionInformation(MaybeVecOne(decision))>>]

decision_info_from_metadata(seq, metadata) ==
    [seq |-> seq, decision_info |-> <<DecisionMetadata(metadata)>>]

decision_info_from_messages(seq, messages) ==
    [seq |-> seq,
     decision_info |-> <<PartialDecisionInformation(MaybeVecMult(messages))>>]

completed_decision(seq, update) ==
    [seq |-> seq, decision_info |-> <<DecisionDone(update)>>]

full_decision_info(seq, metadata, messages, requests) ==
    [seq |-> seq,
     decision_info |->
        set_insert(
          set_insert(
            set_insert(<<>>, DecisionMetadata(metadata)),
            PartialDecisionInformation(MaybeVecMult(messages))),
          DecisionDone(requests))]

\* Mutant of merge_decisions: the sequence numbers are not compared.
merge_decisions_no_seq_check(self, other) ==
    [ret |-> "Ok",
     self |-> [seq |-> self.seq,
               decision_info |->
                  push_all(other.decision_info, self.decision_info)]]

\* Mutant of merge_decisions: the receiver's bundle is taken out before the
\* sequence numbers are compared, and is not put back on the error path.
merge_decisions_take_first(self, other) ==
    IF self.seq # other.seq
    THEN [ret |-> "OrderProtocolDecision",
          self |-> [seq |-> self.seq, decision_info |-> <<>>]]
    ELSE [ret |-> "Ok",
          self |-> [seq |-> self.seq,
                    decision_info |->
                       push_all(other.decision_info, self.decision_info)]]

\* merge_decisions(&mut self, other): the result and the receiver afterwards.
merge_decisions(self, other) ==
    IF self.seq # other.seq
    THEN [ret |-> "OrderProtocolDecision", self |-> self]
    ELSE [ret |-> "Ok",
          self |-> [seq |-> self.seq,
                    decision_info |->
                       push_all(other.decision_info, self.decision_info)]]

\* append_decision_info(&mut self, decision_info): the receiver afterwards.
append_decision_info(self, info) ==
    [seq |-> self.seq, decision_info |-> push(self.decision_info, info)]

\* Orderable for Decision
sequence_number(self) == self.seq

\* ------------------------------------------------------------------------
\* Inputs
\* ------------------------------------------------------------------------

Pcds ==
    {ProtocolConsensusDecision_new(s, b, rqs, g) :
        s \in SeqNos, b \in UpdateBatches, rqs \in ClientRqLists, g \in Digests}

Parts == {MaybeVecOne(m) : m \in Messages}
            \cup {MaybeVecMult(ms) : ms \in MessageLists}

Infos == {DecisionMetadata(md) : md \in Metadata}
            \cup {PartialDecisionInformation(p) : p \in Parts}
            \cup {DecisionDone(p) : p \in Pcds}

\* The iteration order of a set of infos that holds at most one DecisionDone.
RECURSIVE Listed(_)
Listed(S) ==
    IF S = {} THEN <<>>
    ELSE LET x == CHOOSE y \in S : \A z \in S : CmpInfo(y, z) <= 0
         IN <<x>> \o Listed(S \ {x})

\* The decisions a caller can hold whose contents the source determines: any
\* sequence number with any non-empty bundle of at most MaxInfos entries, at
\* most one of them a DecisionDone.
Decisions ==
    {[seq |-> s, decision_info |-> Listed(S)] :
        s \in SeqNos,
        S \in {T \in SUBSET Infos :
                 /\ T # {}
                 /\ Cardinality(T) <= MaxInfos
                 /\ Cardinality({x \in T : x.kind = "DecisionDone"}) <= 1}}

\* Those of one sequence number.
DecisionsOfSeq(s) == {o \in Decisions : o.seq = s}

NoDecision == [seq |-> 0, decision_info |-> <<>>]

\* ------------------------------------------------------------------------
\* Message envelope (SystemMessage) and headers
\* ------------------------------------------------------------------------

Nodes == {1, 2}

\* Payloads of protocol, log transfer, state transfer messages, requests and
\* replies.
Payloads == {1, 2}

\* The signature node `from` produces over a payload.
Sig(from, payload) == from * 10 + payload

\* Headers: the sender and the signature carried; 0 is a signature no node
\* produces.
Headers ==
    UNION {{[from |-> n, signature |-> s] : s \in {0, Sig(n, 1)}} : n \in Nodes}

NoHeader == [from |-> 0, signature |-> 0]

\* StoredMessage: a header kept together with the message it arrived with.
StoredMessage(header, message) == [header |-> header, message |-> message]

NoStored == StoredMessage(NoHeader, 0)

SystemMessage(variant, payload, fwd_header, stored, requests) ==
    [variant |-> variant, payload |-> payload, fwd_header |-> fwd_header,
     stored |-> stored, requests |-> requests]

ProtocolMessage(p) == SystemMessage("ProtocolMessage", p, NoHeader, NoStored, <<>>)

LogTransferMessage(l) ==
    SystemMessage("LogTransferMessage", l, NoHeader, NoStored, <<>>)

StateTransferMessage(s) ==
    SystemMessage("StateTransferMessage", s, NoHeader, NoStored, <<>>)

OrderedRequest(r) == SystemMessage("OrderedRequest", r, NoHeader, NoStored, <<>>)

OrderedReply(r) == SystemMessage("OrderedReply", r, NoHeader, NoStored, <<>>)

UnorderedRequest(r) ==
    SystemMessage("UnorderedRequest", r, NoHeader, NoStored, <<>>)

UnorderedReply(r) == SystemMessage("UnorderedReply", r, NoHeader, NoStored, <<>>)

\* A forward keeps its own header next to the stored protocol message.
ForwardedProtocolMessage(fwd_header, stored) ==
    SystemMessage("ForwardedProtocolMessage", 0, fwd_header, stored, <<>>)

ForwardedRequestMessage(requests) ==
    SystemMessage("ForwardedRequestMessage", 0, NoHeader, NoStored, requests)

\* ------------------------------------------------------------------------
\* The protocol verifiers and the transport's signature check
\* ------------------------------------------------------------------------

\* OP::verify_order_protocol_message, LT::verify_log_message and
\* ST::verify_state_message.
Verifiers == {"OP", "LT", "ST"}

\* What a verifier returns: Ok((true, _)), Ok((false, _)) or Err.
VerifierResults == {"true", "false", "err"}

\* A verifier is called with (network info, header, payload).
Points == Verifiers \X Headers \X Payloads

\* The `?` on a verifier's result followed by Ok(result).
ResultOf(r) ==
    CASE r = "true" -> "Ok(true)"
      [] r = "false" -> "Ok(false)"
      [] r = "err" -> "Err"

\* SV::verify_signature: whether the header's signature is the sender's
\* signature over the message.
verify_signature(header, msg) == header.signature = Sig(header.from, msg.payload)

\* ------------------------------------------------------------------------
\* Service::verify_message_internal, one definition per match arm.
\* v gives the outcome of every verifier call.
\* ------------------------------------------------------------------------

arm_protocol_message(v, header, msg) ==
    ResultOf(v[<<"OP", header, msg.payload>>])

\* Mutant of arm_log_transfer_message: routed to the ordering protocol's
\* verifier.
arm_log_transfer_as_protocol(v, header, msg) ==
    ResultOf(v[<<"OP", header, msg.payload>>])

arm_log_transfer_message(v, header, msg) ==
    ResultOf(v[<<"LT", header, msg.payload>>])

arm_state_transfer_message(v, header, msg) ==
    ResultOf(v[<<"ST", header, msg.payload>>])

\* Mutant of arm_request_reply: the signature is checked against the header.
arm_request_reply_checked(v, header, msg) ==
    IF verify_signature(header, msg) THEN "Ok(true)" ELSE "Ok(false)"

\* OrderedRequest, OrderedReply, UnorderedReply, UnorderedRequest
arm_request_reply(v, header, msg) == "Ok(true)"

\* Mutant of arm_forwarded_protocol_message: the envelope's header is used.
arm_forwarded_protocol_outer_header(v, header, msg) ==
    ResultOf(v[<<"OP", header, msg.stored.message>>])

arm_forwarded_protocol_message(v, header, msg) ==
    ResultOf(v[<<"OP", msg.stored.header, msg.stored.message>>])

RECURSIVE verify_message_internal(_, _, _)
RECURSIVE forwarded_requests_loop(_, _, _)

\* The loop of the ForwardedRequestMessage arm: result &= verify(...)?
forwarded_requests_loop(v, result, requests) ==
    IF requests = <<>> THEN (IF result THEN "Ok(true)" ELSE "Ok(false)")
    ELSE LET stored_rq == Head(requests)
             r == verify_message_internal(v, stored_rq.header,
                                          OrderedRequest(stored_rq.message))
         IN IF r = "Err" THEN "Err"
            ELSE forwarded_requests_loop(v, result /\ (r = "Ok(true)"),
                                         Tail(requests))

arm_forwarded_request_message(v, header, msg) ==
    forwarded_requests_loop(v, TRUE, msg.requests)

verify_message_internal(v, header, msg) ==
    CASE msg.variant = "ProtocolMessage" -> arm_protocol_message(v, header, msg)
      [] msg.variant = "LogTransferMessage" ->
            arm_log_transfer_message(v, header, msg)
      [] msg.variant = "StateTransferMessage" ->
            arm_state_transfer_message(v, header, msg)
      [] msg.variant \in {"OrderedRequest", "OrderedReply",
                          "UnorderedReply", "UnorderedRequest"} ->
            arm_request_reply(v, header, msg)
      [] msg.variant = "ForwardedProtocolMessage" ->
            arm_forwarded_protocol_message(v, header, msg)
      [] msg.variant = "ForwardedRequestMessage" ->
            arm_forwarded_request_message(v, header, msg)

\* ------------------------------------------------------------------------
\* Inputs of the dispatcher
\* ------------------------------------------------------------------------

\* The longest list of forwarded requests.
MaxForwarded == 2

StoredMessages == {StoredMessage(h, p) : h \in Headers, p \in Payloads}

RequestLists ==
    UNION {[1 .. n -> StoredMessages] : n \in 0 .. MaxForwarded}

Envelopes ==
    {ProtocolMessage(p) : p \in Payloads}
      \cup {LogTransferMessage(p) : p \in Payloads}
      \cup {StateTransferMessage(p) : p \in Payloads}
      \cup {OrderedRequest(p) : p \in Payloads}
      \cup {OrderedReply(p) : p \in Payloads}
      \cup {UnorderedRequest(p) : p \in Payloads}
      \cup {UnorderedReply(p) : p \in Payloads}
      \cup {ForwardedProtocolMessage(fh, s) : fh \in Headers, s \in StoredMessages}
      \cup {ForwardedRequestMessage(rs) : rs \in RequestLists}

\* The verifiers' outcomes: one outcome at one call and another outcome at
\* every other call.
Verdicts ==
    {[x \in Points |-> IF x = p THEN r ELSE q] :
        p \in Points, r \in VerifierResults, q \in VerifierResults}

NoVerdicts == [x \in Points |-> "err"]

\* ------------------------------------------------------------------------
\* NoProtocol: the placeholder protocol of client-only services
\* ------------------------------------------------------------------------

\* The unit value (): the only ProtocolMessage, Proof, StateTransferMessage
\* and LogTransferMessage of NoProtocol.
Unit == 0

\* Ok((result, message))
OkPair(result, message) == [ok |-> TRUE, result |-> result, message |-> message]

\* Mutant of NoProtocol_verify_log_message: the message is reported verified.
NoProtocol_verify_log_message_true(header, message) == OkPair(TRUE, message)

\* impl OrderingProtocolMessage<D> for NoProtocol
NoProtocol_verify_order_protocol_message(header, message) ==
    OkPair(FALSE, message)

NoProtocol_verify_proof(proof) == OkPair(FALSE, proof)

\* impl StateTransferMessage for NoProtocol
NoProtocol_verify_state_message(header, message) == OkPair(FALSE, message)

\* impl LogTransferMessage<D, P> for NoProtocol
NoProtocol_verify_log_message(header, message) == OkPair(FALSE, message)

\* What the dispatcher sees of a verifier's return value.
VerdictOf(out) ==
    IF ~out.ok THEN "err" ELSE IF out.result THEN "true" ELSE "false"

NoProtocolPoints == Verifiers \X Headers \X {Unit}

\* The verifiers of Service<D, NoProtocol, NoProtocol, NoProtocol>.
NoProtocolVerdicts ==
    [x \in NoProtocolPoints |->
        CASE x[1] = "OP" ->
                VerdictOf(NoProtocol_verify_order_protocol_message(x[2], x[3]))
          [] x[1] = "LT" -> VerdictOf(NoProtocol_verify_log_message(x[2], x[3]))
          [] x[1] = "ST" -> VerdictOf(NoProtocol_verify_state_message(x[2], x[3]))]

\* The envelopes of that service: its protocol payloads are the unit value.
NoProtocolEnvelopes ==
    {ProtocolMessage(Unit), LogTransferMessage(Unit), StateTransferMessage(Unit)}
      \cup {OrderedRequest(p) : p \in Payloads}
      \cup {OrderedReply(p) : p \in Payloads}
      \cup {UnorderedRequest(p) : p \in Payloads}
      \cup {UnorderedReply(p) : p \in Payloads}
      \cup {ForwardedProtocolMessage(fh, StoredMessage(h, Unit)) :
              fh \in Headers, h \in Headers}
      \cup {ForwardedRequestMessage(rs) : rs \in RequestLists}

NoProtocolVerifierNames ==
    {"verify_order_protocol_message", "verify_proof", "verify_state_message",
     "verify_log_message"}

\* ------------------------------------------------------------------------
\* ReplyNode for NodeWrap: replies to clients
\* ------------------------------------------------------------------------

ReplyTypes == {"Ordered", "Unordered"}

Replies == {1, 2}

Flushes == BOOLEAN

\* targets: impl Iterator<Item=NodeId>
TargetLists == {<<>>, <<1>>, <<2>>, <<1, 2>>, <<2, 1>>}

NoTarget == 0

\* Result<()> of the wrapped node: Ok(()) or Err(e)
SendOutcomes == {[ok |-> TRUE, failed |-> <<>>], [ok |-> FALSE, failed |-> <<>>]}

\* Result<(), Vec<NodeId>> of the wrapped node: Ok(()) or Err(failed)
BroadcastOutcomes ==
    {[ok |-> TRUE, failed |-> <<>>]}
      \cup {[ok |-> FALSE, failed |-> f] : f \in {<<1>>, <<2>>, <<2, 1>>}}

\* One call on the wrapped node self.0: what it was given, what it answers.
NT_send(message, target, flush, outcome) ==
    [sent |-> [op |-> "send", message |-> message, target |-> target,
               targets |-> <<>>, flush |-> flush],
     ret |-> outcome]

NT_send_signed(message, target, flush, outcome) ==
    [sent |-> [op |-> "send_signed", message |-> message, target |-> target,
               targets |-> <<>>, flush |-> flush],
     ret |-> outcome]

NT_broadcast(message, targets, outcome) ==
    [sent |-> [op |-> "broadcast", message |-> message, target |-> NoTarget,
               targets |-> targets, flush |-> FALSE],
     ret |-> outcome]

NT_broadcast_signed(message, targets, outcome) ==
    [sent |-> [op |-> "broadcast_signed", message |-> message,
               target |-> NoTarget, targets |-> targets, flush |-> FALSE],
     ret |-> outcome]

\* Mutant of ReplyNode_send_signed: the reply leaves through the unsigned send.
ReplyNode_send_signed_unsigned(reply_type, reply, target, flush, outcome) ==
    LET message == IF reply_type = "Ordered" THEN OrderedReply(reply)
                   ELSE UnorderedReply(reply)
    IN  NT_send(message, target, flush, outcome)

ReplyNode_send(reply_type, reply, target, flush, outcome) ==
    LET message == CASE reply_type = "Ordered" -> OrderedReply(reply)
                     [] reply_type = "Unordered" -> UnorderedReply(reply)
    IN  NT_send(message, target, flush, outcome)

ReplyNode_send_signed(reply_type, reply, target, flush, outcome) ==
    LET message == CASE reply_type = "Ordered" -> OrderedReply(reply)
                     [] reply_type = "Unordered" -> UnorderedReply(reply)
    IN  NT_send_signed(message, target, flush, outcome)

ReplyNode_broadcast(reply_type, reply, targets, outcome) ==
    LET message == CASE reply_type = "Ordered" -> OrderedReply(reply)
                     [] reply_type = "Unordered" -> UnorderedReply(reply)
    IN  NT_broadcast(message, targets, outcome)

ReplyNode_broadcast_signed(reply_type, reply, targets, outcome) ==
    LET message == CASE reply_type = "Ordered" -> OrderedReply(reply)
                     [] reply_type = "Unordered" -> UnorderedReply(reply)
    IN  NT_broadcast_signed(message, targets, outcome)

\* Nothing handed to the wrapped node.
NoSent ==
    [op |-> "none", message |-> OrderedReply(0), target |-> NoTarget,
     targets |-> <<>>, flush |-> FALSE]

NoOutcome == [ok |-> TRUE, failed |-> <<>>]

ReplyCall(method, reply_type, reply, target, targets, flush, outcome) ==
    [method |-> method, reply_type |-> reply_type, reply |-> reply,
     target |-> target, targets |-> targets, flush |-> flush,
     outcome |-> outcome, state |-> "pending", sent |-> NoSent,
     ret |-> NoOutcome]

NoReplyCall ==
    [ReplyCall("none", "Ordered", 0, NoTarget, <<>>, FALSE, NoOutcome)
        EXCEPT !.state = "none"]

ReplyCalls ==
    {ReplyCall(m, rt, r, n, <<>>, f, o) :
        m \in {"send", "send_signed"}, rt \in ReplyTypes, r \in Replies,
        n \in Nodes, f \in Flushes, o \in SendOutcomes}
      \cup {ReplyCall(m, rt, r, NoTarget, ts, FALSE, o) :
              m \in {"broadcast", "broadcast_signed"}, rt \in ReplyTypes,
              r \in Replies, ts \in TargetLists, o \in BroadcastOutcomes}

\* ------------------------------------------------------------------------
\* OrderProtocolSignatureVerificationHelper for SigVerifier
\* ------------------------------------------------------------------------

\* Result<Message> of SV::verify_signature: Err(e) or Ok(message)
SvErr == [ok |-> FALSE, message |-> OrderedRequest(0)]

SvOk(message) == [ok |-> TRUE, message |-> message]

\* What a helper returns: Err(e), Ok(payload), or the panic of unreachable!()
HelperErr == [kind |-> "Err", payload |-> 0]

HelperOk(payload) == [kind |-> "Ok", payload |-> payload]

HelperUnreachable == [kind |-> "unreachable", payload |-> 0]

\* One call of SV::verify_signature(network_info, header, message): what it
\* was given and what it answers.
SV_verify_signature(header, message, answer) ==
    [given |-> [header |-> header, message |-> message], ret |-> answer]

\* SystemMessage::from_protocol_message: the ProtocolMessage variant around
\* the message (the Protocol wrapper that into_inner removes is transparent).
from_protocol_message(message) == ProtocolMessage(message)

\* `?` on the answer, then `if let <variant>(r) = message { Ok(r) } else
\* { unreachable!() }`.
unwrap_variant(variant, answer) ==
    IF ~answer.ok THEN HelperErr
    ELSE IF answer.message.variant = variant THEN HelperOk(answer.message.payload)
    ELSE HelperUnreachable

\* Mutant of verify_request_message: the request handed in is returned, not
\* the one inside the verified envelope.
verify_request_message_echo(header, request, answer) ==
    LET sv == SV_verify_signature(header, OrderedRequest(request), answer)
    IN  [given |-> sv.given,
         out |-> IF ~sv.ret.ok THEN HelperErr ELSE HelperOk(request)]

verify_request_message(header, request, answer) ==
    LET message == OrderedRequest(request)
        sv == SV_verify_signature(header, message, answer)
    IN  [given |-> sv.given, out |-> unwrap_variant("OrderedRequest", sv.ret)]

verify_reply_message(header, reply, answer) ==
    LET message == OrderedReply(reply)
        sv == SV_verify_signature(header, message, answer)
    IN  [given |-> sv.given, out |-> unwrap_variant("OrderedReply", sv.ret)]

verify_protocol_message(header, message, answer) ==
    LET wrapped == from_protocol_message(message)
        sv == SV_verify_signature(header, wrapped, answer)
    IN  [given |-> sv.given, out |-> unwrap_variant("ProtocolMessage", sv.ret)]

HelperNames ==
    {"verify_request_message", "verify_reply_message", "verify_protocol_message"}

\* The answers of SV::verify_signature: an error, or an envelope of any of
\* the three variants with any payload.
SvAnswers ==
    {SvErr}
      \cup {SvOk(OrderedRequest(p)) : p \in Payloads}
      \cup {SvOk(OrderedReply(p)) : p \in Payloads}
      \cup {SvOk(ProtocolMessage(p)) : p \in Payloads}

NoGiven == [header |-> NoHeader, message |-> OrderedRequest(0)]

NoHelperOut == [kind |-> "none", payload |-> 0]

NoHelperCall ==
    [name |-> "none", header |-> NoHeader, arg |-> 0, answer |-> SvErr,
     state |-> "none", given |-> NoGiven, out |-> NoHelperOut]

HelperCalls ==
    {[name |-> n, header |-> h, arg |-> a, answer |-> s, state |-> "pending",
      given |-> NoGiven, out |-> NoHelperOut] :
        n \in HelperNames, h \in Headers, a \in Payloads, s \in SvAnswers}

\* ------------------------------------------------------------------------
\* Variable groups and initial states
\* ------------------------------------------------------------------------

dvars == <<d, lastOp, ret, otherSeq, otherSame>>

vvars == <<call, verdicts>>

ovars == <<vcall, rcall, hcall>>

vars ==
    <<d, lastOp, ret, otherSeq, otherSame, call, verdicts, vcall, rcall, hcall>>

InitDecision ==
    /\ d = NoDecision
    /\ lastOp = "none"
    /\ ret = "none"
    /\ otherSeq = 0
    /\ otherSame = FALSE

NoCall == [header |-> NoHeader, msg |-> OrderedRequest(0), result |-> "none"]

InitVerify ==
    /\ call = NoCall
    /\ verdicts = NoVerdicts

\* No return value yet.
NoOut == [ok |-> FALSE, result |-> FALSE, message |-> Unit]

NoVCall ==
    [name |-> "none", header |-> NoHeader, message |-> Unit, state |-> "none",
     out |-> NoOut]

InitOther ==
    /\ vcall = NoVCall
    /\ rcall = NoReplyCall
    /\ hcall = NoHelperCall

Init == InitDecision /\ InitVerify /\ InitOther

FromMessage ==
    \E s \in SeqNos, m \in Messages :
        /\ d' = decision_info_from_message(s, m)
        /\ lastOp' = "decision_info_from_message"
        /\ ret' = "none"
        /\ otherSeq' = 0
        /\ otherSame' = FALSE
        /\ UNCHANGED <<vvars, ovars>>

FromMetadata ==
    \E s \in SeqNos, md \in Metadata :
        /\ d' = decision_info_from_metadata(s, md)
        /\ lastOp' = "decision_info_from_metadata"
        /\ ret' = "none"
        /\ otherSeq' = 0
        /\ otherSame' = FALSE
        /\ UNCHANGED <<vvars, ovars>>

FromMessages ==
    \E s \in SeqNos, ms \in MessageLists :
        /\ d' = decision_info_from_messages(s, ms)
        /\ lastOp' = "decision_info_from_messages"
        /\ ret' = "none"
        /\ otherSeq' = 0
        /\ otherSame' = FALSE
        /\ UNCHANGED <<vvars, ovars>>

Completed ==
    \E s \in SeqNos, p \in Pcds :
        /\ d' = completed_decision(s, p)
        /\ lastOp' = "completed_decision"
        /\ ret' = "none"
        /\ otherSeq' = 0
        /\ otherSame' = FALSE
        /\ UNCHANGED <<vvars, ovars>>

Full ==
    \E s \in SeqNos, md \in Metadata, ms \in MessageLists, p \in Pcds :
        /\ d' = full_decision_info(s, md, ms, p)
        /\ lastOp' = "full_decision_info"
        /\ ret' = "none"
        /\ otherSeq' = 0
        /\ otherSame' = FALSE
        /\ UNCHANGED <<vvars, ovars>>

AppendInfo ==
    \E info \in Infos :
        /\ lastOp # "none"
        /\ Len(append_decision_info(d, info).decision_info) <= MaxInfos
        /\ d' = append_decision_info(d, info)
        /\ lastOp' = "append_decision_info"
        /\ ret' = "none"
        /\ otherSeq' = 0
        /\ otherSame' = FALSE
        /\ UNCHANGED <<vvars, ovars>>

MergeDecisions ==
    \E other \in Decisions :
      LET merged == merge_decisions(d, other) IN
        /\ lastOp # "none"
        /\ Len(merged.self.decision_info) <= MaxInfos
        /\ d' = merged.self
        /\ ret' = merged.ret
        /\ lastOp' = "merge_decisions"
        /\ otherSeq' = other.seq
        /\ otherSame' = (other.decision_info = d.decision_info)
        /\ UNCHANGED <<vvars, ovars>>

Next ==
    \/ FromMessage
    \/ FromMetadata
    \/ FromMessages
    \/ Completed
    \/ Full
    \/ AppendInfo
    \/ MergeDecisions

Spec == Init /\ [][Next]_vars

\* The dispatcher is a function of its arguments and of what the verifiers
\* answer: the verification runs start from any header, any envelope and any
\* verdicts, with the call still to be made.
InitCall ==
    /\ d = NoDecision
    /\ lastOp = "none"
    /\ ret = "none"
    /\ otherSeq = 0
    /\ otherSame = FALSE
    /\ vcall = NoVCall
    /\ rcall = NoReplyCall
    /\ hcall = NoHelperCall
    /\ call \in {[header |-> h, msg |-> m, result |-> "pending"] :
                    h \in Headers, m \in Envelopes}
    /\ verdicts \in Verdicts

\* The call of verify_message_internal returns.
VerifyMessage ==
    /\ call.result = "pending"
    /\ call' = [call EXCEPT !.result =
                    verify_message_internal(verdicts, call.header, call.msg)]
    /\ UNCHANGED <<verdicts, dvars, ovars>>

NextVerify == VerifyMessage

SpecVerify == InitCall /\ [][NextVerify]_vars

\* A service built on NoProtocol: the dispatcher runs from any header and any
\* envelope of that service with NoProtocol's verifiers, and each verifier of
\* NoProtocol is called directly on any header.
InitNoProtocol ==
    /\ d = NoDecision
    /\ lastOp = "none"
    /\ ret = "none"
    /\ otherSeq = 0
    /\ otherSame = FALSE
    /\ call \in {[header |-> h, msg |-> m, result |-> "pending"] :
                    h \in Headers, m \in NoProtocolEnvelopes}
    /\ verdicts = NoProtocolVerdicts
    /\ vcall \in {[name |-> n, header |-> h, message |-> Unit,
                     state |-> "pending", out |-> NoOut] :
                    n \in NoProtocolVerifierNames, h \in Headers}
    /\ rcall = NoReplyCall
    /\ hcall = NoHelperCall

\* The direct call of the verifier returns.
NoProtocolVerify ==
    /\ vcall.state = "pending"
    /\ vcall' = [vcall EXCEPT !.state = "returned", !.out =
          CASE vcall.name = "verify_order_protocol_message" ->
                  NoProtocol_verify_order_protocol_message(vcall.header, vcall.message)
            [] vcall.name = "verify_proof" -> NoProtocol_verify_proof(vcall.message)
            [] vcall.name = "verify_state_message" ->
                  NoProtocol_verify_state_message(vcall.header, vcall.message)
            [] vcall.name = "verify_log_message" ->
                  NoProtocol_verify_log_message(vcall.header, vcall.message)]
    /\ UNCHANGED <<dvars, vvars, rcall, hcall>>

NextNoProtocol ==
    \/ VerifyMessage
    \/ NoProtocolVerify

SpecNoProtocol == InitNoProtocol /\ [][NextNoProtocol]_vars

\* One call of a ReplyNode method with any arguments; the wrapped node
\* answers with any outcome.
InitReply ==
    /\ d = NoDecision
    /\ lastOp = "none"
    /\ ret = "none"
    /\ otherSeq = 0
    /\ otherSame = FALSE
    /\ call = NoCall
    /\ verdicts = NoVerdicts
    /\ vcall = NoVCall
    /\ rcall \in ReplyCalls
    /\ hcall = NoHelperCall

Answered(r) == [rcall EXCEPT !.state = "returned", !.sent = r.sent, !.ret = r.ret]

ReplySend ==
    /\ rcall.state = "pending"
    /\ rcall.method = "send"
    /\ rcall' = Answered(ReplyNode_send(rcall.reply_type, rcall.reply,
                                        rcall.target, rcall.flush, rcall.outcome))
    /\ UNCHANGED <<dvars, vvars, vcall, hcall>>

ReplySendSigned ==
    /\ rcall.state = "pending"
    /\ rcall.method = "send_signed"
    /\ rcall' = Answered(ReplyNode_send_signed(rcall.reply_type, rcall.reply,
                                               rcall.target, rcall.flush,
                                               rcall.outcome))
    /\ UNCHANGED <<dvars, vvars, vcall, hcall>>

ReplyBroadcast ==
    /\ rcall.state = "pending"
    /\ rcall.method = "broadcast"
    /\ rcall' = Answered(ReplyNode_broadcast(rcall.reply_type, rcall.reply,
                                             rcall.targets, rcall.outcome))
    /\ UNCHANGED <<dvars, vvars, vcall, hcall>>

ReplyBroadcastSigned ==
    /\ rcall.state = "pending"
    /\ rcall.method = "broadcast_signed"
    /\ rcall' = Answered(ReplyNode_broadcast_signed(rcall.reply_type, rcall.reply,
                                                    rcall.targets, rcall.outcome))
    /\ UNCHANGED <<dvars, vvars, vcall, hcall>>

NextReply ==
    \/ ReplySend
    \/ ReplySendSigned
    \/ ReplyBroadcast
    \/ ReplyBroadcastSigned

SpecReply == InitReply /\ [][NextReply]_vars

\* One call of a helper with any header and any argument; SV::verify_signature
\* answers with an error or with any envelope.
InitHelper ==
    /\ d = NoDecision
    /\ lastOp = "none"
    /\ ret = "none"
    /\ otherSeq = 0
    /\ otherSame = FALSE
    /\ call = NoCall
    /\ verdicts = NoVerdicts
    /\ vcall = NoVCall
    /\ rcall = NoReplyCall
    /\ hcall \in HelperCalls

HelperReturned(r) ==
    [hcall EXCEPT !.state = "returned", !.given = r.given, !.out = r.out]

VerifyRequestMessage ==
    /\ hcall.state = "pending"
    /\ hcall.name = "verify_request_message"
    /\ hcall' = HelperReturned(
                    verify_request_message(hcall.header, hcall.arg, hcall.answer))
    /\ UNCHANGED <<dvars, vvars, vcall, rcall>>

VerifyReplyMessage ==
    /\ hcall.state = "pending"
    /\ hcall.name = "verify_reply_message"
    /\ hcall' = HelperReturned(
                    verify_reply_message(hcall.header, hcall.arg, hcall.answer))
    /\ UNCHANGED <<dvars, vvars, vcall, rcall>>

VerifyProtocolMessage ==
    /\ hcall.state = "pending"
    /\ hcall.name = "verify_protocol_message"
    /\ hcall' = HelperReturned(
                    verify_protocol_message(hcall.header, hcall.arg, hcall.answer))
    /\ UNCHANGED <<dvars, vvars, vcall, rcall>>

NextHelper ==
    \/ VerifyRequestMessage
    \/ VerifyReplyMessage
    \/ VerifyProtocolMessage

SpecHelper == InitHelper /\ [][NextHelper]_vars

\* ------------------------------------------------------------------------
\* Properties of Decision (checked under Spec)
\* ------------------------------------------------------------------------

Built == lastOp # "none"

DoneIndexes(infos) == {i \in 1 .. Len(infos) : infos[i].kind = "DecisionDone"}

\* C3: the ProtocolConsensusDecision carried by a DecisionDone entry has the
\* sequence number of the Decision that holds it.
C3_DoneSharesSeq ==
    Built =>
        \A i \in DoneIndexes(d.decision_info) :
            pcd_sequence_number(d.decision_info[i].pcd) = sequence_number(d)

\* C4: merge_decisions returns the error OrderProtocolDecision when the
\* argument's seq differs from the receiver's, and Ok only when they are
\* equal.
C4_MergeSeqMismatch ==
    lastOp = "merge_decisions" =>
        /\ ret \in {"Ok", "OrderProtocolDecision"}
        /\ (otherSeq # sequence_number(d)) <=> (ret = "OrderProtocolDecision")
        /\ (otherSeq = sequence_number(d)) <=> (ret = "Ok")

C4_Witness ==
    /\ lastOp = "merge_decisions"
    /\ otherSeq # sequence_number(d)
    /\ ret = "OrderProtocolDecision"

Returned == call.result # "pending"

Variant == call.msg.variant

\* C7: for a ForwardedRequestMessage the dispatcher returns true exactly when
\* every contained request carries a good signature, and false when at least
\* one inner signature is bad.
C7_ForwardedRequestsAnd ==
    (Returned /\ Variant = "ForwardedRequestMessage") =>
        (call.result = "Ok(true)" <=>
            \A i \in 1 .. Len(call.msg.requests) :
                verify_signature(call.msg.requests[i].header,
                                 OrderedRequest(call.msg.requests[i].message)))

\* C8: for a ForwardedProtocolMessage the result is the ordering protocol
\* verifier's outcome on the inner header and the inner payload, whatever
\* the envelope's header and the header stored with the forward.
C8_ForwardTrustIsolation ==
    (Returned /\ Variant = "ForwardedProtocolMessage") =>
        /\ call.result =
              ResultOf(verdicts[<<"OP", call.msg.stored.header,
                                  call.msg.stored.message>>])
        /\ \A h \in Headers, fh \in Headers :
              verify_message_internal(verdicts, h,
                  ForwardedProtocolMessage(fh, call.msg.stored)) = call.result

\* A forward was verified whose inner header is neither the envelope's header
\* nor the forward's, and the verifier answers differently on the envelope's
\* header.
C8_Witness ==
    /\ Returned
    /\ Variant = "ForwardedProtocolMessage"
    /\ call.header # call.msg.stored.header
    /\ call.msg.fwd_header # call.msg.stored.header
    /\ verdicts[<<"OP", call.header, call.msg.stored.message>>]
          # verdicts[<<"OP", call.msg.stored.header, call.msg.stored.message>>]

\* C9: ProtocolMessage, LogTransferMessage and StateTransferMessage are
\* answered by their own verifier (OP, LT, ST), called with the envelope's
\* header and the variant's payload; the verifier's boolean or its error is
\* the dispatcher's result.
C9_RoutedToOwnVerifier ==
    Returned =>
        /\ Variant = "ProtocolMessage" =>
              call.result = ResultOf(verdicts[<<"OP", call.header, call.msg.payload>>])
        /\ Variant = "LogTransferMessage" =>
              call.result = ResultOf(verdicts[<<"LT", call.header, call.msg.payload>>])
        /\ Variant = "StateTransferMessage" =>
              call.result = ResultOf(verdicts[<<"ST", call.header, call.msg.payload>>])

\* A log transfer message was verified, its verifier failed, and the other
\* two verifiers would have answered otherwise.
C9_Witness ==
    /\ Returned
    /\ Variant = "LogTransferMessage"
    /\ call.result = "Err"
    /\ verdicts[<<"OP", call.header, call.msg.payload>>] # "err"
    /\ verdicts[<<"ST", call.header, call.msg.payload>>] # "err"

TrustedVariants ==
    {"OrderedRequest", "OrderedReply", "UnorderedRequest", "UnorderedReply"}

\* C10: requests and replies, ordered or unordered, are answered true for
\* every header and payload, whatever the verifiers would answer.
C10_RequestsRepliesTrusted ==
    (Returned /\ Variant \in TrustedVariants) =>
        /\ call.result = "Ok(true)"
        /\ \A v \in Verdicts :
              verify_message_internal(v, call.header, call.msg) = "Ok(true)"

\* A request whose header does not carry the sender's signature over it was
\* verified.
C10_Witness ==
    /\ Returned
    /\ Variant = "OrderedRequest"
    /\ ~verify_signature(call.header, call.msg)
    /\ call.result = "Ok(true)"

\* ------------------------------------------------------------------------
\* Properties of NoProtocol (checked under SpecNoProtocol)
\* ------------------------------------------------------------------------

ProtocolVariants ==
    {"ProtocolMessage", "LogTransferMessage", "StateTransferMessage",
     "ForwardedProtocolMessage"}

\* C11: every verifier of NoProtocol returns (false, payload unchanged), and
\* a service built on NoProtocol reports no ProtocolMessage,
\* LogTransferMessage, StateTransferMessage or ForwardedProtocolMessage
\* envelope as verified.
C11_NoProtocolUnverified ==
    /\ vcall.state = "returned" => vcall.out = OkPair(FALSE, vcall.message)
    /\ (Returned /\ Variant \in ProtocolVariants) => call.result = "Ok(false)"

\* NoProtocol's log transfer verifier was called directly, and the dispatcher
\* has answered a log transfer envelope.
C11_Witness ==
    /\ vcall.name = "verify_log_message"
    /\ vcall.state = "returned"
    /\ vcall.out = OkPair(FALSE, Unit)
    /\ Returned
    /\ Variant = "LogTransferMessage"
    /\ call.result = "Ok(false)"

\* ------------------------------------------------------------------------
\* Properties of ReplyNode (checked under SpecReply)
\* ------------------------------------------------------------------------

\* C13: each ReplyNode method wraps an Ordered reply into OrderedReply and an
\* Unordered reply into UnorderedReply, carrying the same reply, hands the
\* wrapped message to the operation of the same name of the wrapped node with
\* the same target(s) and flush flag, and returns that operation's result
\* (with the failed node ids of a broadcast) unchanged.
C13_ReplyRouting ==
    rcall.state = "returned" =>
        /\ rcall.reply_type = "Ordered" => rcall.sent.message.variant = "OrderedReply"
        /\ rcall.reply_type = "Unordered" =>
              rcall.sent.message.variant = "UnorderedReply"
        /\ rcall.sent.message.payload = rcall.reply
        /\ rcall.sent.op = rcall.method
        /\ rcall.sent.target = rcall.target
        /\ rcall.sent.targets = rcall.targets
        /\ rcall.sent.flush = rcall.flush
        /\ rcall.ret = rcall.outcome

\* An Unordered reply went out through broadcast_signed to two targets and the
\* wrapped node reported a failed node.
C13_Witness ==
    /\ rcall.state = "returned"
    /\ rcall.method = "broadcast_signed"
    /\ rcall.reply_type = "Unordered"
    /\ rcall.targets = <<2, 1>>
    /\ rcall.sent.message = UnorderedReply(rcall.reply)
    /\ rcall.ret = [ok |-> FALSE, failed |-> <<2>>]

\* ------------------------------------------------------------------------
\* The frame of merge / append (checked under Spec)
\* ------------------------------------------------------------------------

\* C22: a merge_decisions call that fails leaves the receiver's seq and bundle
\* as they were, and no merge_decisions or append_decision_info call changes
\* the receiver's seq.
C22_FailedMergeFrame ==
    [][/\ (lastOp' = "merge_decisions" /\ ret' = "OrderProtocolDecision")
            => d' = d
       /\ lastOp' \in {"merge_decisions", "append_decision_info"}
            => sequence_number(d') = sequence_number(d)]_vars

\* A merge into a Decision of several entries has failed.
C22_Witness ==
    /\ lastOp = "merge_decisions"
    /\ ret = "OrderProtocolDecision"
    /\ otherSeq # 0
    /\ Len(d.decision_info) = MaxInfos

\* ------------------------------------------------------------------------
\* Properties of the helper verifiers (checked under SpecHelper)
\* ------------------------------------------------------------------------

WrappedVariant ==
    CASE hcall.name = "verify_request_message" -> "OrderedRequest"
      [] hcall.name = "verify_reply_message" -> "OrderedReply"
      [] hcall.name = "verify_protocol_message" -> "ProtocolMessage"

\* C23: verify_request_message, verify_reply_message and
\* verify_protocol_message hand SV::verify_signature the given header and
\* their argument inside an OrderedRequest, OrderedReply and ProtocolMessage
\* envelope respectively; they return Err when that call fails; when it
\* answers with an envelope of the variant it was given they return that
\* envelope's payload, and unreachable!() is not executed.
C23_HelperVerifiers ==
    hcall.state = "returned" =>
        /\ hcall.given.header = hcall.header
        /\ hcall.given.message.variant = WrappedVariant
        /\ hcall.given.message.payload = hcall.arg
        /\ ~hcall.answer.ok => hcall.out.kind = "Err"
        /\ hcall.out.kind = "Err" => ~hcall.answer.ok
        /\ (hcall.answer.ok
              /\ hcall.answer.message.variant = hcall.given.message.variant) =>
              /\ hcall.out.kind = "Ok"
              /\ hcall.out.payload = hcall.answer.message.payload

\* verify_request_message has returned the request of the verified envelope,
\* which is not the request it was called with.
C23_Witness ==
    /\ hcall.state = "returned"
    /\ hcall.name = "verify_request_message"
    /\ hcall.answer.ok
    /\ hcall.answer.message.variant = "OrderedRequest"
    /\ hcall.answer.message.payload # hcall.arg
    /\ hcall.out.kind = "Ok"
    /\ hcall.out.payload = hcall.answer.message.payload

====
